---- MODULE Spec2Model ----
(***************************************************************************)
(* State-machine model of the RAG pipeline of src/rag_core.py (class       *)
(* RAGSystem) as it is driven by src/app.py.                               *)
(*                                                                         *)
(* One RAGSystem instance is shared by every session of the host           *)
(* (st.cache_resource, app.py:18-21), so its public methods are modelled   *)
(* as operations issued by a small set of concurrent callers.  Text is     *)
(* abstracted to its stripped length, which is all the code branches on.   *)
(***************************************************************************)
EXTENDS Integers, Sequences, FiniteSets, TLC

\* ---------------------------------------------------------------- bounds
\* Largest number of pages of one upload.
MaxPages == 2

\* Largest number of chunks one registry entry holds: more than a search
\* returns.
MaxRegChunks == 9

\* Callers that share the RAGSystem instance.
Threads == {"t1", "t2"}

\* Pages of an upload.  A text is kept as its stripped length; direct is
\* the text layer of the page, ocr what text recognition returns for the page
\* image, and cuts the stripped lengths of the chunks the splitter cuts the
\* text layer into when it is longer than chunk_size.  A blank page, a
\* scanned page, a page with a few characters, a page of text, and a page
\* longer than chunk_size made of two short titles that a long run of white
\* space separates.
Pagina ==
    { [direct |-> 0,    ocr |-> 0,   cuts |-> <<>>],
      [direct |-> 0,    ocr |-> 51,  cuts |-> <<>>],
      [direct |-> 15,   ocr |-> 15,  cuts |-> <<>>],
      [direct |-> 120,  ocr |-> 120, cuts |-> <<>>],
      [direct |-> 1529, ocr |-> 30,  cuts |-> <<15, 15>>] }

\* Name of the uploaded file the pages belong to.
FileNames == {"a.pdf"}

\* Topic names a caller may pass.
Temas == {"General", "rag", "agents"}

\* ----------------------------------------------------- program constants
MinTextoTotal == 100
MinPagina == 10
MinOcr == 50
MinChunk == 20
chunk_size == 1500
k_temporal == 8
k_coleccion == 4

None == "None"

\* ------------------------------------------------------------------ state
VARIABLES
    coleccion_temporal,  \* self.coleccion_temporal: None or the chunks of the store
    colecciones,         \* self.colecciones: topic -> chunks of its store
    pc,                  \* per caller: "idle", or "embedding" inside procesar_pdfs_subidos
    chunks_validos,      \* per caller: local chunks_validos of the running ingest
    last,                \* the call that took the last step: what it did and returned
    registro,            \* topic registry behind listar_temas / limpiar_coleccion
    reg_op,              \* the last operation applied to the registry
    entrada,             \* argument of the function applied on its own
    salida               \* what that function returned and did

vars == <<coleccion_temporal, colecciones, pc, chunks_validos, last, registro, reg_op,
          entrada, salida>>

rag_vars == <<coleccion_temporal, colecciones, pc, chunks_validos, last>>
reg_vars == <<registro, reg_op>>
fun_vars == <<entrada, salida>>

\* ------------------------------------------------------------ pure helpers
\* Uploads: the pages of the uploaded file, 0..MaxPages of them.
Uploads == UNION {[1..n -> Pagina] : n \in 0..MaxPages}

\* loader.load(): one Document per page, in page order, with the source file
\* as metadata (the page index is the position and is not stored).
Documentos(file, up) ==
    [i \in 1..Len(up) |->
        [len |-> up[i].direct, cuts |-> up[i].cuts, source |-> file]]

RECURSIVE SumLen(_)
SumLen(s) == IF s = <<>> THEN 0 ELSE Head(s).len + SumLen(Tail(s))

\* texto_total: concatenation of the stripped page texts.
texto_total(documentos) == SumLen(documentos)

\* _extraer_texto_ocr: ocr_env is what the environment does to the OCR
\* backend: "ok", "import_error" (not installed), "error" (it raises).
PaginaOcrValida(d) == d.len > MinOcr

_extraer_texto_ocr(file, up, ocr_env) ==
    IF ocr_env # "ok" THEN <<>>
    ELSE SelectSeq(
            [i \in 1..Len(up) |->
                [len |-> up[i].ocr, cuts |-> <<>>, source |-> file]],
            PaginaOcrValida)

PaginaDirectaValida(d) == d.len > MinPagina

\* Variant of documentos_validos_de that keeps the direct pages next to the
\* recognised ones.
documentos_validos_mezclados(file, up, ocr_env) ==
    IF texto_total(Documentos(file, up)) > MinTextoTotal
    THEN SelectSeq(Documentos(file, up), PaginaDirectaValida)
    ELSE SelectSeq(Documentos(file, up), PaginaDirectaValida)
            \o _extraer_texto_ocr(file, up, ocr_env)

\* documentos_validos: the direct pages when enough text was extracted,
\* the recognised pages otherwise.
documentos_validos_de(file, up, ocr_env) ==
    IF texto_total(Documentos(file, up)) > MinTextoTotal
    THEN SelectSeq(Documentos(file, up), PaginaDirectaValida)
    ELSE _extraer_texto_ocr(file, up, ocr_env)

\* text_splitter.split_documents: the chunks of each page in page order, each
\* with the metadata of its page; a text that fits in chunk_size is one chunk.
Piezas(d) ==
    IF d.len = 0 THEN <<>>
    ELSE IF d.len <= chunk_size THEN <<d.len>>
    ELSE d.cuts

ChunksDe(d) ==
    [j \in 1..Len(Piezas(d)) |-> [len |-> Piezas(d)[j], source |-> d.source]]

RECURSIVE split_documents(_)
split_documents(docs) ==
    IF docs = <<>> THEN <<>>
    ELSE ChunksDe(Head(docs)) \o split_documents(Tail(docs))

ChunkValido(c) == c.len > MinChunk

\* Variant of filtrar_chunks that keeps every chunk, as ingestar_documentos does.
sin_filtrar(chunks) == chunks

\* chunks_validos: chunks whose stripped text is longer than MinChunk.
filtrar_chunks(chunks) == SelectSeq(chunks, ChunkValido)

\* Chroma.from_documents(documents=...): a store holding these documents.
from_documents(chunks) == chunks

\* Variant of Vacio in which the early returns are never taken.
VacioNunca(lista) == FALSE

\* The guard of an early "return False": the list is empty.
Vacio(lista) == lista = <<>>

\* Variant of SinColeccion in which the query does not test for a collection.
SinColeccionNunca(col) == FALSE

\* `not self.coleccion_temporal`: no store, or a store that holds nothing.
SinColeccion(col) == col = None \/ col = <<>>

DocsDe(col) == IF col = None THEN <<>> ELSE col

\* Variant of Min in which the search returns all that the collection holds.
SinTope(a, b) == b

\* The number of documents a search for a documents returns from b.
Min(a, b) == IF a < b THEN a ELSE b

\* What a call did: op and who name the call, ret its return value
\* ("raise" when an exception leaves it), path the exit taken, dir the
\* state of the staging directory, searches/llm the backend calls made,
\* size the number of vectors of the collection searched, n the number of
\* documents retrieved.
Result(op, who, ret, path, dir) ==
    [op |-> op, who |-> who, ret |-> ret, path |-> path, dir |-> dir,
     searches |-> 0, llm |-> 0, size |-> 0, k |-> 0, n |-> 0]

Query(op, fault, col, k) ==
    [op |-> op, who |-> None,
     ret |-> IF fault = "none" THEN "answer" ELSE "raise",
     path |-> fault, dir |-> "none",
     searches |-> 1,
     llm |-> IF fault = "search" THEN 0 ELSE 1,
     size |-> Len(col),
     k |-> k,
     n |-> IF fault = "search" THEN 0 ELSE Min(k, Len(col))]

\* ------------------------------------------------------------------- Init
Init ==
    /\ coleccion_temporal = None
    /\ colecciones = [t \in {} |-> <<>>]
    /\ pc = [t \in Threads |-> "idle"]
    /\ chunks_validos = [t \in Threads |-> <<>>]
    /\ last = Result("none", None, "none", "none", "none")
    /\ registro = <<>>
    /\ reg_op = [op |-> "none", tema |-> None]
    /\ entrada = <<>>
    /\ salida = [op |-> "none"]

\* ------------------------------------------------ procesar_pdfs_subidos
\* A fault names the statement of the call that raises: mkdtemp, the write
\* of an uploaded file, loader.load, split_documents, or
\* Chroma.from_documents ("embed").
\* EarlyFaults raise before anything is read from the upload; an OCR fault
\* is the OCR backend missing or raising.
EarlyFaults == {"mkdtemp", "write", "load"}
Faults == EarlyFaults \cup {"split", "embed"}
OcrFaults == {"import_error", "error"}
Envs == {"ok", "split"} \cup OcrFaults
Recuperables == {"no_docs", "no_text", "no_chunks"}

\* The exit the first part of the call takes (rag_core.py:225-300): the
\* statement that raised, one of the three early returns, or "ok" when it
\* goes on to build the vector store.
ExitPath(fault, documentos, validos, cv) ==
    IF fault \in EarlyFaults THEN fault
    ELSE IF Vacio(documentos) THEN "no_docs"
    ELSE IF Vacio(validos) THEN "no_text"
    ELSE IF fault = "split" THEN "split"
    ELSE IF Vacio(cv) THEN "no_chunks"
    ELSE "ok"

\* Variant of RetOf in which the early returns raise instead of returning False.
RetOfRaising(path) ==
    IF path \in Recuperables THEN "raise"
    ELSE IF path \in Faults THEN "False"
    ELSE "True"

\* Variant of RetOf in which the handler lets the exception through.
RetOfReraise(path) ==
    IF path \in Recuperables THEN "False"
    ELSE IF path \in Faults THEN "raise"
    ELSE "True"

\* What the caller gets: the early returns give False, the handler at the
\* end of the method catches every exception and returns False, the last
\* statement returns True.
RetOf(path) ==
    IF path \in Recuperables THEN "False"
    ELSE IF path \in Faults THEN "False"
    ELSE "True"

\* The staging directory when the call returns: never created when mkdtemp
\* raised, removed by the rmtree before each return, left in place by the
\* exception handler.
DirOf(path) ==
    IF path = "mkdtemp" THEN "none"
    ELSE IF path \in Faults THEN "exists"
    ELSE "removed"

\* What the first part of the call (rag_core.py:225-300) computes from an
\* upload that was written and loaded.  env is what goes wrong after the
\* load: nothing, the OCR backend, or split_documents raising.  ocr tells
\* whether _extraer_texto_ocr was called.
primera_parte(file, up, env) ==
    LET fault      == IF env = "split" THEN env ELSE "none"
        ocr_env    == IF env \in OcrFaults THEN env ELSE "ok"
        documentos == Documentos(file, up)
        validos    == documentos_validos_de(file, up, ocr_env)
        cv         == filtrar_chunks(split_documents(validos))
    IN  [documentos_validos |-> validos,
         chunks_validos |-> cv,
         ocr  |-> ~Vacio(documentos) /\ ~(texto_total(documentos) > MinTextoTotal),
         path |-> ExitPath(fault, documentos, validos, cv)]

\* The first part reads and writes only the call's own locals and its own
\* staging directory, so it is one step.
procesar_pdfs_subidos(t) ==
    /\ pc[t] = "idle"
    /\ \/ \E fault \in EarlyFaults :
            LET path == ExitPath(fault, <<>>, <<>>, <<>>)
            IN  /\ last' = Result("procesar", t, RetOf(path), path, DirOf(path))
                /\ UNCHANGED <<pc, chunks_validos>>
       \/ \E file \in FileNames, up \in Uploads, env \in Envs :
            LET cv   == primera_parte(file, up, env).chunks_validos
                path == primera_parte(file, up, env).path
            IN  IF path = "ok"
                THEN /\ chunks_validos' = [chunks_validos EXCEPT ![t] = cv]
                     /\ pc' = [pc EXCEPT ![t] = "embedding"]
                     /\ last' = Result("procesar", t, "pending", path, "exists")
                ELSE /\ last' = Result("procesar", t, RetOf(path), path, DirOf(path))
                     /\ UNCHANGED <<pc, chunks_validos>>
    /\ UNCHANGED <<coleccion_temporal, colecciones, reg_vars, fun_vars>>

\* Second part (rag_core.py:301-322): the vector store is built from
\* chunks_validos and assigned to self.coleccion_temporal, the staging
\* directory is removed and True is returned; a fault of the embedding
\* backend is caught by the handler, which returns False.
procesar_pdfs_embed(t) ==
    /\ pc[t] = "embedding"
    /\ \E fault \in {"none", "embed"} :
        IF fault = "embed"
        THEN /\ last' = Result("procesar", t, RetOf("embed"), "embed", DirOf("embed"))
             /\ UNCHANGED coleccion_temporal
        ELSE /\ coleccion_temporal' = from_documents(chunks_validos[t])
             /\ last' = Result("procesar", t, RetOf("ok"), "ok", DirOf("ok"))
    /\ pc' = [pc EXCEPT ![t] = "idle"]
    /\ chunks_validos' = [chunks_validos EXCEPT ![t] = <<>>]
    /\ UNCHANGED <<colecciones, reg_vars, fun_vars>>

\* --------------------------------------------- obtener_respuesta_temporal
obtener_respuesta_temporal ==
    /\ IF SinColeccion(coleccion_temporal)
       THEN last' = Result("temporal", None, "sentinel", "empty", "none")
       ELSE \E fault \in {"none", "search", "llm"} :
            last' = Query("temporal", fault, DocsDe(coleccion_temporal), k_temporal)
    /\ UNCHANGED <<coleccion_temporal, colecciones, pc, chunks_validos, reg_vars, fun_vars>>

\* ------------------------------------------------ limpiar_coleccion_temporal
\* Variant of limpiar_coleccion_temporal that reports but keeps the collection.
limpiar_sin_reset ==
    /\ last' = Result("limpiar", None, "none", "ok", "none")
    /\ UNCHANGED <<coleccion_temporal, colecciones, pc, chunks_validos, reg_vars, fun_vars>>

limpiar_coleccion_temporal ==
    /\ coleccion_temporal' = None
    /\ last' = Result("limpiar", None, "none", "ok", "none")
    /\ UNCHANGED <<colecciones, pc, chunks_validos, reg_vars, fun_vars>>

\* ------------------------------------------------------ obtener_respuesta
\* Variant of obtener_respuesta that searches the uploaded documents when the
\* topic has no collection.
obtener_respuesta_con_fallback ==
    /\ \E coleccion \in Temas :
        IF coleccion \notin DOMAIN colecciones /\ SinColeccion(coleccion_temporal)
        THEN last' = Result("respuesta", None, "notfound", "notfound", "none")
        ELSE \E fault \in {"none", "search", "llm"} :
            last' = Query("respuesta", fault,
                          IF coleccion \in DOMAIN colecciones
                          THEN colecciones[coleccion] ELSE DocsDe(coleccion_temporal),
                          k_coleccion)
    /\ UNCHANGED <<coleccion_temporal, colecciones, pc, chunks_validos, reg_vars, fun_vars>>

obtener_respuesta ==
    /\ \E coleccion \in Temas :
        IF coleccion \notin DOMAIN colecciones
        THEN last' = Result("respuesta", None, "notfound", "notfound", "none")
        ELSE \E fault \in {"none", "search", "llm"} :
            last' = Query("respuesta", fault, colecciones[coleccion], k_coleccion)
    /\ UNCHANGED <<coleccion_temporal, colecciones, pc, chunks_validos, reg_vars, fun_vars>>

\* ---------------------------------------------------- ingestar_documentos
\* Raises ValueError for an unknown collection; otherwise adds every chunk
\* of the split, unfiltered, to the collection's store.
ingestar_documentos ==
    /\ \E coleccion \in Temas :
        IF coleccion \notin DOMAIN colecciones
        THEN /\ last' = Result("ingestar", None, "raise", "ValueError", "none")
             /\ UNCHANGED colecciones
        ELSE \E file \in FileNames, up \in Uploads :
             /\ colecciones' = [colecciones EXCEPT ![coleccion] =
                    @ \o split_documents(Documentos(file, up))]
             /\ last' = Result("ingestar", None, "none", "ok", "none")
    /\ UNCHANGED <<coleccion_temporal, pc, chunks_validos, reg_vars, fun_vars>>

\* ------------------------------------------------------ topic registry
\* app.py calls listar_temas(), limpiar_coleccion(tema) and
\* limpiar_coleccion() on the RAGSystem; the registry behind them is a
\* mapping from topic to collection that keeps insertion order.
ChunksRegistro ==
    UNION {[1..n -> {[len |-> 120, source |-> f] : f \in FileNames}] : n \in 0..MaxRegChunks}

TemasDe(reg) == [i \in 1..Len(reg) |-> reg[i].tema]

Registrado(reg, tema) == \E i \in 1..Len(reg) : reg[i].tema = tema

\* list(): the topic names, in insertion order.
listar_temas == TemasDe(registro)

\* upsert(topic, chunks): add to the topic's collection, or register a new one.
upsert(reg, tema, chunks) ==
    IF Registrado(reg, tema)
    THEN [i \in 1..Len(reg) |->
            IF reg[i].tema = tema THEN [reg[i] EXCEPT !.docs = @ \o chunks] ELSE reg[i]]
    ELSE Append(reg, [tema |-> tema, docs |-> chunks])

\* Variant of limpiar_coleccion that drops the oldest entry, whatever its topic.
limpiar_primera(reg, tema) == IF reg = <<>> THEN reg ELSE Tail(reg)

\* delete(topic): remove the entry if present.
limpiar_coleccion(reg, tema) == SelectSeq(reg, LAMBDA e : e.tema # tema)

\* delete_all(): clear the mapping.
limpiar_todas(reg) == <<>>

Upsert ==
    \E tema \in Temas, chunks \in ChunksRegistro :
        /\ \A i \in 1..Len(registro) :
              registro[i].tema = tema => Len(registro[i].docs) + Len(chunks) <= MaxRegChunks
        /\ IF Vacio(chunks)
           THEN /\ reg_op' = [op |-> "upsert_error", tema |-> tema]
                /\ UNCHANGED registro
           ELSE /\ registro' = upsert(registro, tema, chunks)
                /\ reg_op' = [op |-> "upsert", tema |-> tema]
        /\ UNCHANGED <<rag_vars, fun_vars>>

LimpiarColeccion ==
    \E tema \in Temas :
        /\ registro' = limpiar_coleccion(registro, tema)
        /\ reg_op' = [op |-> "delete", tema |-> tema]
        /\ UNCHANGED <<rag_vars, fun_vars>>

LimpiarTodas ==
    /\ registro' = limpiar_todas(registro)
    /\ reg_op' = [op |-> "delete_all", tema |-> None]
    /\ UNCHANGED <<rag_vars, fun_vars>>

\* The searches of one question: app.py asks with
\* obtener_respuesta_temporal(pregunta, tema), tema being the topic chosen
\* or None for "Todas las colecciones".  A topic given and registered is
\* searched alone with k_temporal; with no topic every registered collection
\* is searched with k_coleccion, in the order of the registry; a topic that
\* is not registered is searched nowhere.  Each search is the similarity
\* search of rag_core.py.
Consultas(reg, tema) ==
    IF tema = None
    THEN [i \in 1..Len(reg) |->
            [tema |-> reg[i].tema,
             q |-> Query("temporal", "none", reg[i].docs, k_coleccion)]]
    ELSE SelectSeq(
            [i \in 1..Len(reg) |->
                [tema |-> reg[i].tema,
                 q |-> Query("temporal", "none", reg[i].docs, k_temporal)]],
            LAMBDA c : c.tema = tema)

\* The combined result: the documents of each search, one search after the
\* other; a document is kept as the topic it came from.
RECURSIVE Combinar(_)
Combinar(cs) ==
    IF cs = <<>> THEN <<>>
    ELSE [j \in 1..Head(cs).q.n |-> Head(cs).tema] \o Combinar(Tail(cs))

ObtenerRespuestaPorTema ==
    \E tema \in Temas \cup {None} :
        /\ reg_op' = [op |-> "ask", tema |-> tema,
                      consultas |-> Consultas(registro, tema),
                      docs |-> Combinar(Consultas(registro, tema))]
        /\ UNCHANGED <<registro, rag_vars, fun_vars>>

NextRegistro ==
    \/ Upsert
    \/ LimpiarColeccion
    \/ LimpiarTodas
    \/ ObtenerRespuestaPorTema

SpecRegistro == Init /\ [][NextRegistro]_vars

\* ------------------------------------------------------------------- Next
Next ==
    \/ \E t \in Threads : procesar_pdfs_subidos(t)
    \/ \E t \in Threads : procesar_pdfs_embed(t)
    \/ obtener_respuesta_temporal
    \/ limpiar_coleccion_temporal
    \/ obtener_respuesta
    \/ ingestar_documentos

Spec == Init /\ [][Next]_vars

\* ------------------------------------------------------ sources footer
\* Largest number of retrieved documents whose sources are listed.
MaxDocs == 3

\* A text is the sequence of its code points, so that texts compare the way
\* Python strings do.  The texts the footer is made of:
Nombres == { <<97, 46, 112, 100, 102>>,      \* "a.pdf"
             <<98, 46, 112, 100, 102>> }     \* "b.pdf"

DirTemporal == <<116, 109, 112>>             \* "tmp", the staging directory

\* "- " in rag_core.py, "- " + the page emoji + " " in utils.py
PrefijoRespuesta == <<45, 32>>
PrefijoFormatear == <<45, 32, 128196, 32>>

\* " (Página " and ")"
AbrePagina == <<32, 40, 80, 225, 103, 105, 110, 97, 32>>
CierraPagina == <<41>>

\* Page indices of the retrieved documents.
Paginas == {2, 10}

\* Metadata of a retrieved document: the loader stores the path of the file
\* in the staging directory, text recognition stores the bare file name; a
\* collection holds documents of one of the two kinds.
MetaDirecta == {[source |-> <<DirTemporal, nom>>, page |-> pg] : nom \in Nombres, pg \in Paginas}
MetaOcr == {[source |-> <<nom>>, page |-> pg] : nom \in Nombres, pg \in Paginas}

SeqsDe(S) == UNION {[1..n -> S] : n \in 0..MaxDocs}

\* docs: what a similarity search returns, in any order, repeats included.
DocsRecuperados == SeqsDe(MetaDirecta) \cup SeqsDe(MetaOcr)

\* os.path.basename: the last component of the path.
basename(path) == path[Len(path)]

\* str(pagina): the decimal digits.
RECURSIVE Digitos(_)
Digitos(n) ==
    IF n < 10 THEN <<48 + n>> ELSE Digitos(n \div 10) \o <<48 + (n % 10)>>

\* f"- {os.path.basename(fuente)} (Página {pagina})"
fuente_info(prefijo, meta) ==
    prefijo \o basename(meta.source) \o AbrePagina \o Digitos(meta.page) \o CierraPagina

\* fuentes_unicas: the set of the formatted lines.
fuentes_unicas(prefijo, docs) ==
    {fuente_info(prefijo, docs[i]) : i \in 1..Len(docs)}

\* a < b on Python strings: code point by code point, a prefix first.
RECURSIVE Menor(_, _)
Menor(a, b) ==
    IF a = <<>> THEN b # <<>>
    ELSE IF b = <<>> THEN FALSE
    ELSE IF Head(a) = Head(b) THEN Menor(Tail(a), Tail(b))
    ELSE Head(a) < Head(b)

\* The orders in which the elements of a set can be listed.
Ordenes(S) ==
    {f \in [1..Cardinality(S) -> S] :
        \A i, j \in 1..Cardinality(S) : i # j => f[i] # f[j]}

\* sorted(S)
sorted(S) ==
    CHOOSE f \in Ordenes(S) :
        \A i, j \in 1..Cardinality(S) : i < j => Menor(f[i], f[j])

\* `for fuente in fuentes_unicas`: a set of strings is iterated in the order
\* of its hash table, which depends on the per-process hash seed and on the
\* order of insertion: any order.
IteracionDeSet(S) == Ordenes(S)

\* `for fuente in sorted(fuentes_unicas)`
IteracionOrdenada(S) == {sorted(S)}

InitFuentes ==
    /\ coleccion_temporal = None
    /\ colecciones = [t \in {} |-> <<>>]
    /\ pc = [t \in Threads |-> "idle"]
    /\ chunks_validos = [t \in Threads |-> <<>>]
    /\ last = Result("none", None, "none", "none", "none")
    /\ registro = <<>>
    /\ reg_op = [op |-> "none", tema |-> None]
    /\ entrada \in DocsRecuperados
    /\ salida = [op |-> "none"]

\* The footer obtener_respuesta and obtener_respuesta_temporal append to the
\* answer (rag_core.py:165-176, 363-376): the lines after the heading.
fuentes_de_respuesta ==
    /\ \E orden \in IteracionDeSet(fuentes_unicas(PrefijoRespuesta, entrada)) :
            salida' = [op |-> "respuesta", fuentes |-> orden]
    /\ UNCHANGED <<entrada, rag_vars, reg_vars>>

\* utils.formatear_fuentes: the lines after the heading.
formatear_fuentes ==
    /\ \E orden \in IteracionOrdenada(fuentes_unicas(PrefijoFormatear, entrada)) :
            salida' = [op |-> "formatear_fuentes", fuentes |-> orden]
    /\ UNCHANGED <<entrada, rag_vars, reg_vars>>

NextFuentes ==
    \/ fuentes_de_respuesta
    \/ formatear_fuentes

SpecFuentes == InitFuentes /\ [][NextFuentes]_vars

\* ------------------------------------------- one call of the ingest alone
\* The arguments and the environment of one call: the list of uploaded
\* files (none, or one file), the pages of the file, and what goes wrong.
\* Nothing can go wrong writing a file when there is none.
EntradasIngesta ==
    {[uploaded_files |-> <<>>, up |-> <<>>, env |-> e] :
        e \in (Envs \cup EarlyFaults) \ {"write"}}
    \cup
    {[uploaded_files |-> <<f>>, up |-> u, env |-> e] :
        f \in FileNames, u \in Uploads, e \in Envs \cup EarlyFaults}

InitIngesta ==
    /\ coleccion_temporal = None
    /\ colecciones = [t \in {} |-> <<>>]
    /\ pc = [t \in Threads |-> "idle"]
    /\ chunks_validos = [t \in Threads |-> <<>>]
    /\ last = Result("none", None, "none", "none", "none")
    /\ registro = <<>>
    /\ reg_op = [op |-> "none", tema |-> None]
    /\ entrada \in EntradasIngesta
    /\ salida = [op |-> "none"]

\* procesar_pdfs_subidos(uploaded_files) run from its first statement to its
\* return with no other call in between (rag_core.py:212-322).
procesar_pdfs_subidos_completo ==
    LET file == IF entrada.uploaded_files = <<>> THEN None
                ELSE entrada.uploaded_files[1]
        r == IF entrada.env \in EarlyFaults
             THEN [documentos_validos |-> <<>>, chunks_validos |-> <<>>,
                   ocr |-> FALSE,
                   path |-> ExitPath(entrada.env, <<>>, <<>>, <<>>)]
             ELSE primera_parte(file, entrada.up, entrada.env)
    IN  \E fault \in {"none", "embed"} :
            LET path == IF r.path = "ok" /\ fault = "embed" THEN "embed" ELSE r.path
            IN  /\ salida' = [op |-> "procesar", ret |-> RetOf(path), path |-> path,
                              dir |-> DirOf(path), ocr |-> r.ocr,
                              documentos_validos |-> r.documentos_validos]
                /\ coleccion_temporal' =
                        IF path = "ok" THEN from_documents(r.chunks_validos)
                        ELSE coleccion_temporal
                /\ UNCHANGED <<entrada, colecciones, pc, chunks_validos, last, reg_vars>>

NextIngesta == procesar_pdfs_subidos_completo

SpecIngesta == InitIngesta /\ [][NextIngesta]_vars

\* =================================================================== claims
IngestReturned == last.op = "procesar" /\ last.ret \in {"True", "False", "raise"}

Estado == IF coleccion_temporal = None THEN "EMPTY" ELSE "READY"

\* The step is caller t's successful build of the vector store.
StoreStep(t) ==
    /\ pc[t] = "embedding"
    /\ pc'[t] = "idle"
    /\ last'.op = "procesar" /\ last'.who = t /\ last'.ret = "True"

\* C1: whenever a call of procesar_pdfs_subidos has returned, on any exit
\* path, the staging directory it created no longer exists.
C1_TempDirRemovedOnEveryExit == IngestReturned => last.dir # "exists"

\* C2: a call of procesar_pdfs_subidos that ends in a recoverable failure
\* (no documents, no text, no valid chunks) returns False, does not raise,
\* and leaves the stored collections exactly as they were.
C2_RecoverableFailureReturnsFalse ==
    [][(last'.op = "procesar" /\ last'.path \in Recuperables)
        => /\ last'.ret = "False"
           /\ coleccion_temporal' = coleccion_temporal
           /\ colecciones' = colecciones]_vars

\* A recoverable failure happened while an earlier collection is stored.
C2_Witness ==
    /\ last.op = "procesar" /\ last.path = "no_text" /\ last.ret = "False"
    /\ coleccion_temporal # None

\* C3: asking while no collection is stored (initially, or after the
\* collection was deleted) returns the "no documents loaded" sentinel, does
\* not raise, and calls neither the similarity search nor the model.
C3_EmptyQueryReturnsSentinel ==
    [][(last'.op = "temporal" /\ coleccion_temporal = None)
        => /\ last'.ret = "sentinel"
           /\ last'.searches = 0
           /\ last'.llm = 0]_vars

C3_Witness ==
    /\ last.op = "temporal" /\ last.ret = "sentinel"
    /\ coleccion_temporal = None

C5_IngestAppends ==
    [][\A t \in Threads :
        (StoreStep(t) /\ coleccion_temporal # None)
            => coleccion_temporal' = coleccion_temporal \o chunks_validos[t]]_vars

\* C6: after delete(topic) the list does not hold the topic and holds every
\* other topic as before; delete of an unregistered topic leaves the list
\* unchanged; delete_all leaves it empty; a topic enters the list only by
\* being ingested.
C6_DeleteRemovesOnlyTheTopic ==
    [][/\ reg_op'.op = "delete"
            => TemasDe(registro') =
                  SelectSeq(TemasDe(registro), LAMBDA x : x # reg_op'.tema)
       /\ reg_op'.op = "delete_all" => TemasDe(registro') = <<>>
       /\ \A tema \in Temas :
            (~Registrado(registro, tema) /\ Registrado(registro', tema))
                => (reg_op'.op = "upsert" /\ reg_op'.tema = tema)]_vars

\* A topic was deleted and another one is still listed.
C6_Witness ==
    /\ reg_op.op = "delete"
    /\ ~Registrado(registro, reg_op.tema)
    /\ Len(listar_temas) >= 1

C8_NoLostUpdate ==
    [][\A t \in Threads :
        (/\ StoreStep(t)
         /\ last.op = "procesar" /\ last.ret = "True" /\ last.who # t)
            => /\ Len(coleccion_temporal') =
                    Len(coleccion_temporal) + Len(chunks_validos[t])
               /\ \A i \in 1..Len(coleccion_temporal) :
                    \E j \in 1..Len(coleccion_temporal') :
                        coleccion_temporal'[j] = coleccion_temporal[i]]_vars

\* C9: every chunk stored in any collection has stripped length > 20.
C9_StoredChunksLongerThan20 ==
    /\ \A i \in 1..Len(DocsDe(coleccion_temporal)) : coleccion_temporal[i].len > 20
    /\ \A c \in DOMAIN colecciones :
            \A i \in 1..Len(colecciones[c]) : colecciones[c][i].len > 20

\* A collection is stored and an ingest whose chunks were all too short has
\* just been turned away.
C9_Witness ==
    /\ coleccion_temporal # None /\ Len(coleccion_temporal) >= 1
    /\ last.op = "procesar" /\ last.path = "no_chunks"

\* C10: every collection a similarity search is issued against holds at
\* least one chunk, and no registered collection is empty.
C10_NeverQueriedEmpty ==
    /\ last.searches >= 1 => last.size >= 1
    /\ coleccion_temporal # None => Len(coleccion_temporal) >= 1
    /\ \A c \in DOMAIN colecciones : Len(colecciones[c]) >= 1

C10_Witness == last.op = "temporal" /\ last.searches = 1 /\ last.size >= 1

\* The lines of a footer are all different and in increasing order.
EnOrden(lineas) ==
    \A i, j \in 1..Len(lineas) : i < j => Menor(lineas[i], lineas[j])

\* C11: the sources footer appended to an answer has exactly one line per
\* distinct formatted string "- basename (Página n)" of the retrieved
\* documents, and the lines are in lexicographic order, so that the footer
\* does not depend on the order of the retrieved documents.
C11_FooterDedupedAndSorted ==
    salida.op = "respuesta"
        => /\ {salida.fuentes[i] : i \in 1..Len(salida.fuentes)}
                = fuentes_unicas(PrefijoRespuesta, entrada)
           /\ EnOrden(salida.fuentes)

\* C12: a query that names a topic with no collection returns the "not
\* found" text: it does not raise and it calls neither a similarity search
\* nor the model, on no collection at all; a query that does search,
\* searches a collection registered under a topic.
C12_AbsentTopicReportedNotFound ==
    [][last'.op = "respuesta"
        => \/ /\ last'.ret = "notfound"
              /\ last'.searches = 0
              /\ last'.llm = 0
           \/ \E c \in DOMAIN colecciones :
                /\ last'.searches = 1
                /\ last'.size = Len(colecciones[c])]_vars

\* A topic was reported as not found while uploaded documents are stored.
C12_Witness ==
    /\ last.op = "respuesta" /\ last.ret = "notfound" /\ last.searches = 0
    /\ coleccion_temporal # None

\* C13: a call of the ingest with an empty list of files is turned away
\* with a validation error before any input or output: no staging directory
\* is created, nothing is written or loaded, no backend is called.
C13_EmptyUploadRejectedBeforeIO ==
    (salida.op = "procesar" /\ entrada.uploaded_files = <<>>)
        => /\ salida.ret = "validation_error"
           /\ salida.dir = "none"
           /\ salida.path \notin {"no_docs", "load"}

\* The stripped lengths of the text layers and of the recognised texts of
\* the pages of the call's upload, and the lengths of the pages it kept.
LargosDirectos == [i \in 1..Len(entrada.up) |-> entrada.up[i].direct]
LargosOcr == [i \in 1..Len(entrada.up) |-> entrada.up[i].ocr]
LargosValidos ==
    [i \in 1..Len(salida.documentos_validos) |-> salida.documentos_validos[i].len]

RECURSIVE Suma(_)
Suma(largos) == IF largos = <<>> THEN 0 ELSE Head(largos) + Suma(Tail(largos))

\* C15: in a call that loaded at least one page: when the text layers of
\* all pages together are longer than 100, the valid pages are the pages
\* whose text layer is longer than 10 and text recognition is not called;
\* otherwise text recognition is called and the valid pages are the pages
\* whose recognised text is longer than 50 (none when the OCR backend is
\* missing or fails), no page of the text layer being kept; and when no page
\* is valid the call returns False and does not raise.
C15_ExtractionPathSelection ==
    (/\ salida.op = "procesar"
     /\ salida.path \notin EarlyFaults
     /\ Len(entrada.up) >= 1)
        => /\ Suma(LargosDirectos) > 100
                => /\ ~salida.ocr
                   /\ LargosValidos = SelectSeq(LargosDirectos, LAMBDA n : n > 10)
           /\ Suma(LargosDirectos) <= 100
                => /\ salida.ocr
                   /\ LargosValidos =
                        IF entrada.env \in OcrFaults THEN <<>>
                        ELSE SelectSeq(LargosOcr, LAMBDA n : n > 50)
           /\ LargosValidos = <<>>
                => /\ salida.ret = "False"
                   /\ salida.path = "no_text"

\* A scanned page next to a page of a few characters: text recognition was
\* called and kept the scanned page only.
C15_Witness ==
    /\ salida.op = "procesar" /\ salida.ocr
    /\ Len(entrada.up) = 2
    /\ Len(salida.documentos_validos) = 1
    /\ \E i \in 1..2 : entrada.up[i].direct > 10

\* Position of a topic in the registry, and the chunks its collection holds.
PosicionDe(tema) == CHOOSE i \in 1..Len(registro) : registro[i].tema = tema
ChunksDeTema(tema) == Len(registro[PosicionDe(tema)].docs)

====
